---- MODULE Spec2Model ----
(***************************************************************************)
(* A model of orders/backend/models.py: the persisted tables of the order  *)
(* backend, the UserManager operations, ConfirmEmailToken.save and the     *)
(* delete cascade declared by the foreign keys.                            *)
(*                                                                         *)
(* Python strings that the code inspects (emails, token keys) are          *)
(* sequences of one-character strings; strings that are only stored and    *)
(* compared (username, type, status) are TLA+ strings.  Python's None is    *)
(* the value None below; a NULL foreign key is NULL.                        *)
(***************************************************************************)
EXTENDS Integers, Sequences, FiniteSets, TLC

\* ------------------------------------------------------------------ bounds

\* Rows ever inserted into the user table (primary keys are never reused).
MaxUsers == 2
\* Rows ever inserted into each of the other tables.
MaxRows == 2
\* ConfirmEmailToken instances the callers hold in memory.
MaxTokenObjs == 2
\* Instances of the other models the callers hold in memory.
MaxInstances == 2
\* Rows ever inserted, over all tables.
MaxInserts == 5
MaxChain == 6

VARIABLES
    users,              \* pk -> User row
    shops,              \* pk -> Shop row
    categories,         \* pk -> Category row
    category_shops,     \* rows of the Category.shops join table: <<category, shop>>
    products,           \* pk -> Product row
    product_infos,      \* pk -> ProductInfo row
    parameters,         \* pk -> Parameter row
    product_parameters, \* pk -> ProductParameter row
    orders,             \* pk -> Order row
    order_items,        \* pk -> OrderItem row
    contacts,           \* pk -> Contact row
    tokens,             \* pk -> ConfirmEmailToken row
    objs,               \* the ConfirmEmailToken instances held in memory
    insts,              \* the instances of other models held in memory
    seq,                \* table name -> the last primary key handed out (the rows inserted)
    last                \* the last call: its name, arguments and outcome

catalog == <<shops, categories, category_shops, products, product_infos,
             parameters, product_parameters>>
trade == <<orders, order_items, contacts>>
db == <<users, catalog, trade, tokens>>
vars == <<db, objs, insts, seq, last>>

\* ------------------------------------------------------------ Python values

None == <<"None">>
NULL == 0

\* "not s" for a str or None
Falsy(s) == s = None \/ s = <<>>

Max(S) == CHOOSE m \in S : \A n \in S : n <= m

\* dict.setdefault and dict.get on a keyword-argument dict
setdefault(d, k, v) == IF k \in DOMAIN d THEN d ELSE d @@ (k :> v)
get(d, k, v) == IF k \in DOMAIN d THEN d[k] ELSE v

\* ----------------------------------------------------------------- choices

STATE_CHOICES == {"basket", "confirmed", "assembled", "sent", "delivered", "cancelled"}
USER_TYPE_CHOICES == {"shop", "customer"}

\* ------------------------------------------------------- outcome of a call

Call(op, args, err, id) == [op |-> op, args |-> args, err |-> err, id |-> id]

\* The call raised: nothing is written.
Raise(op, args, err) ==
    /\ last' = Call(op, args, err, 0)
    /\ UNCHANGED <<db, objs, insts, seq>>

NewId(t) == seq[t] + 1

\* Rows inserted so far, over all tables.
Inserted == seq["users"] + seq["shops"] + seq["categories"] + seq["products"]
            + seq["product_infos"] + seq["parameters"] + seq["product_parameters"]
            + seq["orders"] + seq["order_items"] + seq["contacts"] + seq["tokens"]
            + seq["category_shops"]

\* The bounds leave room for one more row of table t.
Room(t) == seq[t] < (IF t = "users" THEN MaxUsers ELSE MaxRows)

\* Fewer than n rows were inserted so far.
Within(n) == Inserted < n

\* ---------------------------------------------------------- storage layer
\* Rows keep the foreign keys and the columns the operations below read;
\* the remaining columns are plain data stored as given.

TableNames == {"users", "shops", "categories", "products", "product_infos",
               "parameters", "product_parameters", "orders", "order_items",
               "contacts", "tokens"}

Table(t) ==
    CASE t = "users" -> users
      [] t = "shops" -> shops
      [] t = "categories" -> categories
      [] t = "products" -> products
      [] t = "product_infos" -> product_infos
      [] t = "parameters" -> parameters
      [] t = "product_parameters" -> product_parameters
      [] t = "orders" -> orders
      [] t = "order_items" -> order_items
      [] t = "contacts" -> contacts
      [] t = "tokens" -> tokens

\* Table t becomes rows[t]; the join table becomes m2m.
Store(rows, m2m) ==
    /\ users' = rows["users"]
    /\ shops' = rows["shops"]
    /\ categories' = rows["categories"]
    /\ products' = rows["products"]
    /\ product_infos' = rows["product_infos"]
    /\ parameters' = rows["parameters"]
    /\ product_parameters' = rows["product_parameters"]
    /\ orders' = rows["orders"]
    /\ order_items' = rows["order_items"]
    /\ contacts' = rows["contacts"]
    /\ tokens' = rows["tokens"]
    /\ category_shops' = m2m

\* The foreign keys: <<table, column, referenced table, null allowed>>.
\* Every one is declared on_delete=CASCADE.
ForeignKeys ==
    {<<"shops", "user", "users", TRUE>>,
     <<"products", "category", "categories", TRUE>>,
     <<"product_infos", "product", "products", FALSE>>,
     <<"product_infos", "shop", "shops", FALSE>>,
     <<"product_parameters", "product_info", "product_infos", FALSE>>,
     <<"product_parameters", "parameter", "parameters", FALSE>>,
     <<"orders", "user", "users", FALSE>>,
     <<"order_items", "order", "orders", FALSE>>,
     <<"order_items", "product", "products", FALSE>>,
     <<"order_items", "shop", "shops", FALSE>>,
     <<"contacts", "user", "users", FALSE>>,
     <<"tokens", "user", "users", FALSE>>}

\* A NOT NULL column holds NULL, or a foreign key names no stored row.
ForeignKeyViolated(t, row) ==
    \E fk \in ForeignKeys :
        /\ fk[1] = t
        /\ IF row[fk[2]] = NULL THEN ~fk[4] ELSE row[fk[2]] \notin DOMAIN Table(fk[3])

UniqueColumns_UsernameToo ==
    {<<"users", "email", FALSE>>, <<"users", "username", FALSE>>,
     <<"shops", "user", TRUE>>, <<"tokens", "key", FALSE>>}
UniqueColumns_NoTokenKey == {<<"users", "email", FALSE>>, <<"shops", "user", TRUE>>}
\* The unique columns, <<table, column, null allowed>>: User.email
\* (unique=True), Shop.user (OneToOneField, null=True), ConfirmEmailToken.key
\* (unique=True).  User.username is redeclared without unique=True.
UniqueColumns ==
    {<<"users", "email", FALSE>>, <<"shops", "user", TRUE>>, <<"tokens", "key", FALSE>>}

\* Another row of the table holds the same value in a unique column (NULLs
\* never collide).
UniqueViolated(t, row, pk) ==
    \E u \in UniqueColumns :
        /\ u[1] = t
        /\ u[3] => row[u[2]] # NULL
        /\ \E p \in DOMAIN Table(t) : p # pk /\ Table(t)[p][u[2]] = row[u[2]]

ChoicesEnforced_OnSave(t, row) == t = "orders" /\ row.status \notin STATE_CHOICES
\* Model.save() does not call full_clean(): "choices" is checked by model
\* validation only, never when a row is written.
ChoicesEnforced(t, row) == FALSE

\* What the database refuses to write.
Refused(t, row, pk) ==
    ForeignKeyViolated(t, row) \/ UniqueViolated(t, row, pk) \/ ChoicesEnforced(t, row)

\* Model.save() of an instance: INSERT when it has no pk (or its row is gone),
\* UPDATE otherwise.
Upsert(t, pk, row) ==
    Store([x \in TableNames |->
              IF x = t
              THEN [p \in DOMAIN Table(t) \cup {pk} |-> IF p = pk THEN row ELSE Table(t)[p]]
              ELSE Table(x)],
          category_shops)

\* ------------------------------------------------------------------- User

\* str.lower on the characters the inputs use
lower(c) == CASE c = "X" -> "x" [] c = "A" -> "a" [] c = "B" -> "b" [] OTHER -> c

\* str.strip: the string without its leading and trailing blanks
strip(s) ==
    LET ink == {i \in 1..Len(s) : s[i] # " "}
    IN IF ink = {} THEN <<>>
       ELSE SubSeq(s, CHOOSE i \in ink : \A j \in ink : i <= j, Max(ink))

\* BaseUserManager.normalize_email: email.strip().rsplit("@", 1), then the
\* part after the last "@" is lowercased; an address without "@" is
\* returned as given.
normalize_email(email) ==
    LET e == IF Falsy(email) THEN <<>> ELSE email
        t == strip(e)
        at == {i \in 1..Len(t) : t[i] = "@"}
    IN IF at = {} THEN e
       ELSE [i \in 1..Len(t) |-> IF i > Max(at) THEN lower(t[i]) ELSE t[i]]

\* AbstractBaseUser.set_password: a salted hash of the raw password, or an
\* unusable password for None.
set_password(raw) == IF raw = None THEN <<"!">> ELSE <<"hash">> \o raw

DefaultIsActive_Active == TRUE
\* User.is_active: default=False
DefaultIsActive == FALSE

\* User.type: default='buyer'
DefaultType == "buyer"

\* self.model(email=email, **extra_fields): fields not passed take their
\* field defaults.
UserModel(email, extra_fields) ==
    [email        |-> email,
     username     |-> get(extra_fields, "username", ""),
     password     |-> <<>>,
     is_staff     |-> get(extra_fields, "is_staff", FALSE),
     is_superuser |-> get(extra_fields, "is_superuser", FALSE),
     is_active    |-> get(extra_fields, "is_active", DefaultIsActive),
     type         |-> get(extra_fields, "type", DefaultType)]

EmailMissing_NoneOnly(email) == email = None
\* "if not email"
EmailMissing(email) == Falsy(email)

\* UserManager._create_user
_create_user(op, args, email, password, extra_fields) ==
    IF EmailMissing(email) THEN Raise(op, args, "ValueError")
    ELSE LET user == [UserModel(normalize_email(email), extra_fields)
                        EXCEPT !.password = set_password(password)]
         IN IF Refused("users", user, NULL)
            THEN Raise(op, args, "IntegrityError")
            ELSE /\ Upsert("users", NewId("users"), user)
                 /\ seq' = [seq EXCEPT !["users"] = NewId("users")]
                 /\ last' = Call(op, args, "none", NewId("users"))
                 /\ UNCHANGED <<objs, insts>>

\* What the outcome record keeps of a create call's arguments.
CreateArgs(email, password, extra_fields) ==
    [email |-> email, extra_fields |-> extra_fields]

\* UserManager.create_user
create_user(email, password, extra_fields) ==
    /\ Room("users")
    /\ LET ef == setdefault(setdefault(extra_fields, "is_staff", FALSE),
                            "is_superuser", FALSE)
       IN _create_user("create_user", CreateArgs(email, password, extra_fields),
                       email, password, ef)

SuperuserFlagsBad_StaffOnly(ef) == ef["is_staff"] # TRUE
\* "is not True" on either flag
SuperuserFlagsBad(ef) == ef["is_staff"] # TRUE \/ ef["is_superuser"] # TRUE

\* UserManager.create_superuser
create_superuser(email, password, extra_fields) ==
    /\ Room("users")
    /\ LET ef == setdefault(setdefault(extra_fields, "is_staff", TRUE),
                            "is_superuser", TRUE)
           args == CreateArgs(email, password, extra_fields)
       IN IF SuperuserFlagsBad(ef) THEN Raise("create_superuser", args, "ValueError")
          ELSE _create_user("create_superuser", args, email, password, ef)

\* ----------------------------------------------- Model.save, Model.delete

\* Model.objects.get(pk=pk): an instance loaded from the stored row; the
\* caller keeps it.
ModelGet(t, pk) ==
    /\ Len(insts) < MaxInstances
    /\ pk \in DOMAIN Table(t)
    /\ insts' = Append(insts, [table |-> t, pk |-> pk, row |-> Table(t)[pk]])
    /\ last' = Call("get", [table |-> t, pk |-> pk], "none", Len(insts) + 1)
    /\ UNCHANGED <<db, objs, seq>>

\* setattr(instance, field, value)
ModelSet(i, field, value) ==
    /\ i \in DOMAIN insts
    /\ insts' = [insts EXCEPT ![i].row[field] = value]
    /\ last' = Call("set", [obj |-> i, field |-> field, value |-> value], "none", i)
    /\ UNCHANGED <<db, objs, seq>>

\* Model.save() of the instance i: every column is written from the
\* instance.  An instance with a primary key is written by an UPDATE of its
\* row or, when the row is gone, by an INSERT under the same primary key; an
\* instance without one (after its delete()) is inserted under a new
\* primary key, which the instance takes.
ModelSave(i) ==
    /\ i \in DOMAIN insts
    /\ insts[i].pk = NULL => Room(insts[i].table)
    /\ LET obj == insts[i]
           pk == IF obj.pk = NULL THEN NewId(obj.table) ELSE obj.pk
           args == [obj |-> i, table |-> obj.table, pk |-> obj.pk, row |-> obj.row]
       IN IF Refused(obj.table, obj.row, obj.pk)
          THEN Raise("save", args, "IntegrityError")
          ELSE /\ Upsert(obj.table, pk, obj.row)
               /\ insts' = [insts EXCEPT ![i].pk = pk]
               /\ seq' = [seq EXCEPT ![obj.table] = IF obj.pk = NULL THEN pk ELSE @]
               /\ last' = Call("save", args, "none", pk)
               /\ UNCHANGED objs

\* Model.objects.create(**row) of a model that does not override save()
ModelCreate(t, row) ==
    /\ Room(t)
    /\ LET args == [table |-> t, row |-> row]
       IN IF Refused(t, row, NULL) THEN Raise("create", args, "IntegrityError")
          ELSE /\ Upsert(t, NewId(t), row)
               /\ seq' = [seq EXCEPT ![t] = NewId(t)]
               /\ last' = Call("create", args, "none", NewId(t))
               /\ UNCHANGED <<objs, insts>>

\* category.shops.add(shop): a join row is inserted unless the pair has one
M2MAdd(category, shop) ==
    /\ category \in DOMAIN categories
    /\ <<category, shop>> \notin category_shops => Room("category_shops")
    /\ LET args == [category |-> category, shop |-> shop]
       IN IF shop \notin DOMAIN shops THEN Raise("add", args, "IntegrityError")
          ELSE /\ category_shops' = category_shops \cup {<<category, shop>>}
               /\ seq' = [seq EXCEPT !["category_shops"] =
                             IF <<category, shop>> \in category_shops THEN @ ELSE @ + 1]
               /\ last' = Call("add", args, "none", category)
               /\ UNCHANGED <<users, shops, categories, products, product_infos,
                              parameters, product_parameters, trade, tokens, objs,
                              insts>>

\* The rows that reference a row of S through a foreign key.
Referrers(S) ==
    UNION {{<<fk[1], p>> : p \in {q \in DOMAIN Table(fk[1]) :
                                     <<fk[3], Table(fk[1])[q][fk[2]]>> \in S}}
           : fk \in ForeignKeys}

Cascade_NotThroughUser(S) ==
    {r \in Referrers(S) : r[1] \notin {"contacts", "tokens"}}
\* on_delete=CASCADE: what one step of collection adds to S
Cascade(S) == Referrers(S)

\* collection that stops at the rows referencing S directly
collect_Direct(S) == S \cup Cascade(S)
\* Collector.collect: the rows deleted with the rows of S
RECURSIVE collect(_)
collect(S) == LET N == S \cup Cascade(S) IN IF N = S THEN S ELSE collect(N)

\* The join rows of Category.shops left when the rows of D are deleted
M2MLeft(D) ==
    {cs \in category_shops :
        <<"categories", cs[1]>> \notin D /\ <<"shops", cs[2]>> \notin D}

\* Collector.delete: the rows of D and the join rows naming them are removed.
DeleteRows(D) ==
    Store([x \in TableNames |->
              [p \in {q \in DOMAIN Table(x) : <<x, q>> \notin D} |-> Table(x)[p]]],
          M2MLeft(D))

\* The number delete() returns: the rows deleted, join rows included.
Deleted(D) ==
    Cardinality({r \in D : r[2] \in DOMAIN Table(r[1])})
    + Cardinality(category_shops \ M2MLeft(D))

\* Model.objects.get(pk=pk).delete(): delete() of the stored row pk of table
\* t, called on an instance the caller does not keep.
ModelDelete(t, pk) ==
    /\ pk \in DOMAIN Table(t)
    /\ LET D == collect({<<t, pk>>})
       IN /\ DeleteRows(D)
          /\ last' = Call("delete", [table |-> t, pk |-> pk, deleted |-> Deleted(D)],
                          "none", pk)
          /\ UNCHANGED <<objs, insts, seq>>

\* Model.delete() of the loaded instance i: it refuses an instance without a
\* primary key; otherwise it deletes what is stored of the row and of the
\* rows referencing it, and sets the primary key of the instance to None.
InstanceDelete(i) ==
    /\ i \in DOMAIN insts
    /\ LET obj == insts[i]
           D == collect({<<obj.table, obj.pk>>})
       IN IF obj.pk = NULL
          THEN Raise("delete", [table |-> obj.table, pk |-> obj.pk, deleted |-> 0,
                                obj |-> i], "AssertionError")
          ELSE /\ DeleteRows(D)
               /\ insts' = [insts EXCEPT ![i].pk = NULL]
               /\ last' = Call("delete", [table |-> obj.table, pk |-> obj.pk,
                                           deleted |-> Deleted(D), obj |-> i],
                               "none", obj.pk)
               /\ UNCHANGED <<objs, seq>>

\* ------------------------------------------------------ ConfirmEmailToken

\* RandomStringTokenGenerator(min_length=10, max_length=50), the generator
\* get_token_generator() returns when the settings configure none.
MIN_LENGTH == 10
MAX_LENGTH == 50
\* ConfirmEmailToken.key: max_length=64
KEY_MAX_LENGTH == 64

\* The string of n characters c
Key(n, c) == [i \in 1..n |-> c]

HexDigits == {"a"}

\* hexlify(os.urandom(max_length)) without the [0:length] slice
generate_key_Unsliced == {Key(2 * MAX_LENGTH, c) : c \in HexDigits}
\* ConfirmEmailToken.generate_key: the strings a call may return,
\* hexlify(os.urandom(max_length))[0:length] with length drawn from
\* min_length..max_length (here its two ends).
generate_key == {Key(n, c) : n \in {MIN_LENGTH, MAX_LENGTH}, c \in HexDigits}

NeedsKey_Always(key) == TRUE
\* "if not self.key"
NeedsKey(key) == Falsy(key)

\* The key save() leaves in the instance: generated (g) when there is none
SavedKey(key, g) == IF NeedsKey(key) THEN g ELSE key

\* ConfirmEmailToken(user=user, key=key): a new instance for a stored user,
\* not yet saved
TokenNew(user, key) ==
    /\ Len(objs) < MaxTokenObjs
    /\ user \in DOMAIN users
    /\ objs' = Append(objs, [pk |-> NULL, user |-> user, key |-> key])
    /\ last' = Call("token_new", [user |-> user, key |-> key], "none", Len(objs) + 1)
    /\ UNCHANGED <<db, insts, seq>>

\* ConfirmEmailToken.objects.get(pk=pk): an instance loaded from its row
TokenGet(pk) ==
    /\ Len(objs) < MaxTokenObjs
    /\ pk \in DOMAIN tokens
    /\ objs' = Append(objs, [pk |-> pk, user |-> tokens[pk].user, key |-> tokens[pk].key])
    /\ last' = Call("token_get", [pk |-> pk], "none", Len(objs) + 1)
    /\ UNCHANGED <<db, insts, seq>>

\* instance.key = key
TokenAssignKey(i, key) ==
    /\ i \in DOMAIN objs
    /\ objs' = [objs EXCEPT ![i].key = key]
    /\ last' = Call("token_assign", [obj |-> i, key |-> key], "none", i)
    /\ UNCHANGED <<db, insts, seq>>

\* ConfirmEmailToken.save of instance i: the key is generated into the
\* instance first, then Model.save() writes the row or raises.
TokenSave(i) ==
    /\ i \in DOMAIN objs
    /\ UNCHANGED insts
    /\ objs[i].pk = NULL => Room("tokens")
    /\ \E g \in generate_key :
        LET obj == objs[i]
            key == SavedKey(obj.key, g)
            row == [user |-> obj.user, key |-> key]
            pk == IF obj.pk = NULL THEN NewId("tokens") ELSE obj.pk
            args == [obj |-> i, key |-> obj.key]
        IN IF Refused("tokens", row, obj.pk)
           THEN /\ objs' = [objs EXCEPT ![i].key = key]
                /\ last' = Call("token_save", args, "IntegrityError", 0)
                /\ UNCHANGED <<db, seq>>
           ELSE /\ Upsert("tokens", pk, row)
                /\ objs' = [objs EXCEPT ![i] = [pk |-> pk, user |-> obj.user, key |-> key]]
                /\ seq' = [seq EXCEPT !["tokens"] = IF obj.pk = NULL THEN pk ELSE @]
                /\ last' = Call("token_save", args, "none", pk)

\* ConfirmEmailToken.delete() of instance i.  A token has no referencing
\* rows, so the collector deletes it on its fast path, which clears the
\* primary key of the instance in some Django releases and keeps it in
\* others.
TokenDelete(i) ==
    /\ i \in DOMAIN objs
    /\ LET obj == objs[i]
           D == collect({<<"tokens", obj.pk>>})
       IN IF obj.pk = NULL
          THEN Raise("token_delete", [obj |-> i, pk |-> obj.pk, deleted |-> 0],
                     "AssertionError")
          ELSE \E pk \in {NULL, obj.pk} :
                  /\ DeleteRows(D)
                  /\ objs' = [objs EXCEPT ![i].pk = pk]
                  /\ last' = Call("token_delete",
                                  [obj |-> i, pk |-> obj.pk, deleted |-> Deleted(D)],
                                  "none", obj.pk)
                  /\ UNCHANGED <<insts, seq>>

\* ConfirmEmailToken.objects.create(user=user, key=key): a new instance is
\* saved and not kept by the caller
TokenCreate(user, key) ==
    /\ Room("tokens")
    /\ \E g \in generate_key :
        LET row == [user |-> user, key |-> SavedKey(key, g)]
            args == [user |-> user, key |-> key]
        IN IF Refused("tokens", row, NULL)
           THEN Raise("token_create", args, "IntegrityError")
           ELSE /\ Upsert("tokens", NewId("tokens"), row)
                /\ seq' = [seq EXCEPT !["tokens"] = NewId("tokens")]
                /\ last' = Call("token_create", args, "none", NewId("tokens"))
                /\ UNCHANGED <<objs, insts>>

\* ------------------------------------------------------------------- Init

Init ==
    /\ users = <<>> /\ shops = <<>> /\ categories = <<>> /\ category_shops = {}
    /\ products = <<>> /\ product_infos = <<>> /\ parameters = <<>>
    /\ product_parameters = <<>> /\ orders = <<>> /\ order_items = <<>>
    /\ contacts = <<>> /\ tokens = <<>>
    /\ objs = <<>>
    /\ insts = <<>>
    /\ seq = [t \in TableNames \cup {"category_shops"} |-> 0]
    /\ last = Call("init", <<>>, "none", 0)

\* ------------------------------------------------ the user manager's calls

Emails == {None, <<>>, <<" ", "a", "@", "X", " ">>, <<"a", "@", "x">>, <<"B", "@", "x">>}
Passwords == {None, <<"p">>}
ExtraFields == {<<>>,
                [is_staff |-> FALSE], [is_superuser |-> FALSE],
                [is_staff |-> TRUE, is_superuser |-> TRUE],
                [is_active |-> TRUE], [type |-> "shop"]}

UsersNext ==
    \/ \E e \in Emails, p \in Passwords, ef \in ExtraFields : create_user(e, p, ef)
    \/ \E e \in Emails, ef \in ExtraFields : create_superuser(e, <<"p">>, ef)

SpecUsers == Init /\ [][UsersNext]_vars

\* ------------------------------------- loading, changing and saving users

AccountsNext ==
    \/ \E e \in {<<" ", "a", "@", "X", " ">>, <<"B", "@", "x">>} :
          create_user(e, None, <<>>)
    \/ \E pk \in 1..MaxUsers : ModelGet("users", pk)
    \/ \E i \in 1..MaxInstances : ModelSet(i, "username", "u1")
    \/ \E i \in 1..MaxInstances : ModelSave(i)
    \/ \E i \in 1..MaxInstances : InstanceDelete(i)

SpecAccounts == Init /\ [][AccountsNext]_vars

\* ------------------------------------------------- the calls on the tokens

\* The keys a caller constructs a token with: none, or one of its own.
SuppliedKeys == {None, Key(KEY_MAX_LENGTH, "b")}

TokensNext ==
    \/ create_user(<<"a", "@", "x">>, None, <<>>)
    \/ \E u \in 1..MaxUsers, k \in SuppliedKeys : TokenNew(u, k)
    \/ \E pk \in 1..MaxRows : TokenGet(pk)
    \/ \E i \in 1..MaxTokenObjs : TokenAssignKey(i, <<>>)
    \/ \E i \in 1..MaxTokenObjs : TokenSave(i)
    \/ \E i \in 1..MaxTokenObjs : TokenDelete(i)

SpecTokens == Init /\ [][TokensNext]_vars

\* ------------------------------------------------- the calls on the orders

\* One declared choice and one string that is not a choice.
Statuses == {"basket", "paid"}

OrdersNext ==
    \/ create_user(<<"a", "@", "x">>, None, <<>>)
    \/ \E u \in 1..MaxUsers, st \in Statuses :
          ModelCreate("orders", [user |-> u, status |-> st])
    \/ \E pk \in 1..MaxRows : ModelGet("orders", pk)
    \/ \E i \in 1..MaxInstances, st \in Statuses : ModelSet(i, "status", st)
    \/ \E i \in 1..MaxInstances : ModelSave(i)
    \/ \E i \in 1..MaxInstances : InstanceDelete(i)
    \/ \E pk \in 1..MaxUsers : ModelDelete("users", pk)

SpecOrders == Init /\ [][OrdersNext]_vars

\* ------------------------------------- creating and deleting rows everywhere

\* The address the n-th user is created with: two addresses in turn.
NthEmail(n) == IF n % 2 = 1 THEN <<"a", "@", "x">> ELSE <<"B", "@", "x">>

\* The creating calls name stored rows (or NULL where the column allows it).
CascadeNext ==
    \/ Within(MaxInserts) /\ create_user(NthEmail(NewId("users")), None, <<>>)
    \/ \E u \in DOMAIN users \cup {NULL} :
          Within(MaxInserts) /\ ModelCreate("shops", [user |-> u])
    \/ Within(MaxInserts) /\ ModelCreate("categories", [name |-> "c"])
    \/ \E c \in DOMAIN categories \cup {NULL} :
          Within(MaxInserts) /\ ModelCreate("products", [category |-> c])
    \/ \E pr \in DOMAIN products, sh \in DOMAIN shops :
          Within(MaxInserts) /\ ModelCreate("product_infos", [product |-> pr, shop |-> sh])
    \/ Within(MaxInserts) /\ ModelCreate("parameters", [name |-> "p"])
    \/ \E pi \in DOMAIN product_infos, pa \in DOMAIN parameters :
          Within(MaxInserts)
          /\ ModelCreate("product_parameters", [product_info |-> pi, parameter |-> pa])
    \/ \E u \in DOMAIN users :
          Within(MaxInserts) /\ ModelCreate("orders", [user |-> u, status |-> "basket"])
    \/ \E o \in DOMAIN orders, pr \in DOMAIN products, sh \in DOMAIN shops :
          Within(MaxInserts)
          /\ ModelCreate("order_items", [order |-> o, product |-> pr, shop |-> sh])
    \/ \E u \in DOMAIN users : Within(MaxInserts) /\ ModelCreate("contacts", [user |-> u])
    \/ \E u \in DOMAIN users : Within(MaxInserts) /\ TokenCreate(u, <<>>)
    \/ \E c \in DOMAIN categories, sh \in DOMAIN shops :
          Within(MaxInserts) /\ M2MAdd(c, sh)
    \/ \E t \in TableNames, pk \in 1..Max({MaxUsers, MaxRows}) : ModelDelete(t, pk)

SpecCascade == Init /\ [][CascadeNext]_vars

\* ------------------------------------ the catalogue: shops and their goods

\* The tables on the chains from a user or a category down to the listings,
\* their parameters and the order items.
CatalogTables == TableNames \ {"contacts", "tokens"}

CatalogNext ==
    \/ Within(MaxChain) /\ create_user(NthEmail(NewId("users")), None, <<>>)
    \/ \E u \in DOMAIN users :
          Within(MaxChain) /\ ModelCreate("shops", [user |-> u])
    \/ Within(MaxChain) /\ ModelCreate("categories", [name |-> "c"])
    \/ \E c \in DOMAIN categories \cup {NULL} :
          Within(MaxChain) /\ ModelCreate("products", [category |-> c])
    \/ \E pr \in DOMAIN products, sh \in DOMAIN shops :
          Within(MaxChain) /\ ModelCreate("product_infos", [product |-> pr, shop |-> sh])
    \/ Within(MaxChain) /\ ModelCreate("parameters", [name |-> "p"])
    \/ \E pi \in DOMAIN product_infos, pa \in DOMAIN parameters :
          Within(MaxChain)
          /\ ModelCreate("product_parameters", [product_info |-> pi, parameter |-> pa])
    \/ \E u \in DOMAIN users :
          Within(MaxChain) /\ ModelCreate("orders", [user |-> u, status |-> "basket"])
    \/ \E o \in DOMAIN orders, pr \in DOMAIN products, sh \in DOMAIN shops :
          Within(MaxChain)
          /\ ModelCreate("order_items", [order |-> o, product |-> pr, shop |-> sh])
    \/ \E t \in CatalogTables, pk \in 1..Max({MaxUsers, MaxRows}) : ModelDelete(t, pk)

SpecCatalog == Init /\ [][CatalogNext]_vars

Next == UsersNext \/ AccountsNext \/ TokensNext \/ OrdersNext \/ CascadeNext \/ CatalogNext

Spec == Init /\ [][Next]_vars

\* ------------------------------------------------- claims about the users

ManagerOps == {"create_user", "create_superuser"}

\* C2: create_superuser either persists one new user whose is_staff and
\* is_superuser are both true and leaves the other users as they were, or
\* raises and leaves the users as they were; it raises ValueError whenever
\* is_staff or is_superuser is passed with a value other than true.
C2_SuperuserFlagsOrNothing ==
    [][last'.op = "create_superuser" =>
        /\ \/ /\ last'.err = "none"
              /\ last'.id \notin DOMAIN users
              /\ DOMAIN users' = DOMAIN users \cup {last'.id}
              /\ \A p \in DOMAIN users : users'[p] = users[p]
              /\ users'[last'.id].is_staff = TRUE
              /\ users'[last'.id].is_superuser = TRUE
           \/ /\ last'.err \in {"ValueError", "IntegrityError"}
              /\ users' = users
        /\ \A f \in {"is_staff", "is_superuser"} :
              (f \in DOMAIN last'.args.extra_fields /\ last'.args.extra_fields[f] # TRUE)
                  => last'.err = "ValueError"
    ]_vars

\* C2 witness: create_superuser was called with is_superuser=False while a
\* superuser is stored, and raised.
C2_Witness ==
    /\ last.op = "create_superuser" /\ last.err = "ValueError"
    /\ last.args.extra_fields = [is_superuser |-> FALSE]
    /\ ~Falsy(last.args.email)
    /\ \E p \in DOMAIN users : users[p].is_superuser /\ users[p].is_staff

\* C3: create_user and create_superuser called with an empty or None email
\* raise ValueError and leave every table as it was.
C3_NoEmailNoWrite ==
    [][(last'.op \in ManagerOps /\ Falsy(last'.args.email)) =>
        (last'.err = "ValueError" /\ db' = db /\ seq' = seq)]_vars

\* C3 witness: create_user('') raised while a user is stored.
C3_Witness ==
    /\ last.op = "create_user" /\ last.args.email = <<>> /\ last.err = "ValueError"
    /\ users # <<>>

\* C4: a user created by the manager without an is_active argument is
\* stored with is_active = false, and no manager call changes the
\* is_active of a user already stored.
C4_InactiveByDefault ==
    [][last'.op \in ManagerOps =>
        /\ (last'.err = "none" /\ "is_active" \notin DOMAIN last'.args.extra_fields)
              => users'[last'.id].is_active = FALSE
        /\ \A p \in DOMAIN users :
              p \in DOMAIN users' /\ users'[p].is_active = users[p].is_active
    ]_vars

\* C4 witness: a second user was just created without is_active and is
\* inactive, while the first one, created with is_active=True, is active.
C4_Witness ==
    /\ last.op = "create_user" /\ last.err = "none" /\ last.id = 2
    /\ "is_active" \notin DOMAIN last.args.extra_fields
    /\ users[2].is_active = FALSE
    /\ 1 \in DOMAIN users /\ users[1].is_active = TRUE

\* C6 as claimed: the type of every stored user is shop or customer.
C6_TypeInChoices ==
    \A p \in DOMAIN users : users[p].type \in {"shop", "customer"}

\* C7 as claimed: no two stored users have the same username.
C7_UsernameUnique ==
    \A p, q \in DOMAIN users : p # q => users[p].username # users[q].username

\* C7 amended: only the email is unique among stored users; a save of a
\* user is never rejected for the username: it is rejected only when another
\* stored user has the email the instance carries, and otherwise stores the
\* username the instance carries, also when another user has that username
\* already.
C7_EmailUniqueUsernameFree ==
    /\ \A p, q \in DOMAIN users : p # q => users[p].email # users[q].email
    /\ (last.op = "save" /\ last.args.table = "users") =>
          IF last.err = "none"
          THEN users[last.id].username = last.args.row.username
          ELSE \E p \in DOMAIN users :
                  p # last.args.pk /\ users[p].email = last.args.row.email

\* C7 witness: a save gave a user the username another user already has.
C7_Witness ==
    /\ last.op = "save" /\ last.args.table = "users" /\ last.err = "none"
    /\ last.args.row.username = "u1"
    /\ \E p \in DOMAIN users : p # last.id /\ users[p].username = users[last.id].username

\* ------------------------------------------------ claims about the tokens

\* C1 as claimed: once a token row is stored, its key never changes.
C1_KeyNeverChanges ==
    [][\A p \in DOMAIN tokens \cap DOMAIN tokens' : tokens'[p].key = tokens[p].key]_vars

\* C1 amended: save() generates a key only when the instance's key attribute
\* is empty or None at the call; otherwise it leaves the attribute alone and
\* writes it as it is.  So the stored key of a row changes only in a save of
\* an instance of that row whose key attribute differs from the stored key,
\* and a cleared attribute makes that save generate a new key.
C1_SaveKeepsNonEmptyKey ==
    [][/\ last'.op = "token_save" =>
            LET i == last'.args.obj
            IN /\ ~Falsy(objs[i].key) =>
                     /\ objs'[i].key = objs[i].key
                     /\ last'.err = "none" => tokens'[last'.id].key = objs[i].key
               /\ Falsy(objs[i].key) => ~Falsy(objs'[i].key)
               /\ \A p \in DOMAIN tokens \cap DOMAIN tokens' :
                     tokens'[p].key # tokens[p].key =>
                         (p = objs[i].pk /\ objs[i].key # tokens[p].key)
       /\ last'.op # "token_save" =>
            \A p \in DOMAIN tokens \cap DOMAIN tokens' : tokens'[p].key = tokens[p].key
    ]_vars

\* C1 witness: an instance that carries a generated key was saved again and
\* its row still holds that key.
C1_Witness ==
    /\ last.op = "token_save" /\ last.err = "none"
    /\ last.args.key \in generate_key
    /\ tokens[last.id].key = last.args.key
    /\ objs[last.args.obj].key = last.args.key

\* C8: no two stored tokens have the same key; a save whose key (generated
\* or supplied) is the key of another stored token raises, and a save that
\* raises leaves the stored tokens as they were.
C8_KeysUnique ==
    [][/\ \A p, q \in DOMAIN tokens' : p # q => tokens'[p].key # tokens'[q].key
       /\ last'.op = "token_save" =>
            LET i == last'.args.obj
            IN /\ last'.err # "none" => tokens' = tokens
               /\ (\E p \in DOMAIN tokens :
                       p # objs[i].pk /\ tokens[p].key = objs'[i].key)
                     => last'.err = "IntegrityError"
    ]_vars

\* C8 witness: a save generated the key of another stored token, for a
\* stored user, and raised.
C8_Witness ==
    /\ last.op = "token_save" /\ last.err = "IntegrityError"
    /\ Falsy(last.args.key)
    /\ objs[last.args.obj].user \in DOMAIN users
    /\ \E p \in DOMAIN tokens : tokens[p].key = objs[last.args.obj].key

\* C10 as claimed: after a save of a token without a key, the stored key is
\* exactly 64 characters long.
C10_KeyIs64Long ==
    (last.op = "token_save" /\ last.err = "none" /\ Falsy(last.args.key))
        => Len(tokens[last.id].key) = 64

\* C10 amended: after a save of a token without a key, the stored key is
\* not empty and at most 64 characters long: it is what the generator
\* returned, 10 to 50 characters with the generator's defaults.
C10_KeyLengthBounded ==
    (last.op = "token_save" /\ last.err = "none" /\ Falsy(last.args.key))
        => /\ ~Falsy(tokens[last.id].key)
           /\ Len(tokens[last.id].key) \in 1..KEY_MAX_LENGTH
           /\ Len(tokens[last.id].key) \in MIN_LENGTH..MAX_LENGTH

\* C10 witness: a token without a key was saved and got a 50-character key.
C10_Witness ==
    /\ last.op = "token_save" /\ last.err = "none" /\ last.args.key = <<>>
    /\ Len(tokens[last.id].key) = MAX_LENGTH

\* ------------------------------------------------ claims about the orders

\* C5 as claimed: the status of every stored order is one of the six
\* literals.
C5_StatusInChoices ==
    \A o \in DOMAIN orders :
        orders[o].status \in {"basket", "confirmed", "assembled", "sent",
                              "delivered", "cancelled"}

\* C5 amended: saving an order does not check its status against the six
\* declared choices.  A create or save of an order is refused exactly when
\* its user is not stored, and otherwise stores the status it was given
\* (for a save, the status the instance carries).
C5_StatusStoredAsGiven ==
    [][(last'.op \in {"create", "save"} /\ last'.args.table = "orders") =>
        LET row == IF last'.op = "create" THEN last'.args.row
                   ELSE insts[last'.args.obj].row
        IN /\ last'.err = "none" <=> row.user \in DOMAIN users
           /\ last'.err = "none" => orders'[last'.id] = row
           /\ last'.err # "none" => orders' = orders
    ]_vars

\* C5 witness: an order was saved with the status "paid" and holds it.
C5_Witness ==
    /\ last.op = "save" /\ last.args.table = "orders" /\ last.err = "none"
    /\ last.args.row.status = "paid"
    /\ orders[last.id].status = "paid"

\* ----------------------------------------------- claims about the cascade

Keep(rows, S) == [p \in S |-> rows[p]]

\* C9: deleting a user removes exactly the orders, contacts and tokens of
\* that user (and, through the user's shop and orders, their listings and
\* order items); deleting a shop removes exactly the listings and order
\* items of that shop and leaves users, orders, contacts, tokens, products,
\* categories and parameters as they were.
C9_DeleteCascades ==
    [][last'.op = "delete" =>
        LET pk == last'.args.pk
        IN /\ last'.args.table = "users" =>
                /\ users' = Keep(users, DOMAIN users \ {pk})
                /\ orders' = Keep(orders, {o \in DOMAIN orders : orders[o].user # pk})
                /\ contacts' = Keep(contacts, {c \in DOMAIN contacts : contacts[c].user # pk})
                /\ tokens' = Keep(tokens, {k \in DOMAIN tokens : tokens[k].user # pk})
                /\ shops' = Keep(shops, {sh \in DOMAIN shops : shops[sh].user # pk})
                /\ product_infos' = Keep(product_infos,
                       {i \in DOMAIN product_infos : shops[product_infos[i].shop].user # pk})
                /\ order_items' = Keep(order_items,
                       {i \in DOMAIN order_items :
                           /\ shops[order_items[i].shop].user # pk
                           /\ orders[order_items[i].order].user # pk})
           /\ last'.args.table = "shops" =>
                /\ shops' = Keep(shops, DOMAIN shops \ {pk})
                /\ product_infos' = Keep(product_infos,
                       {i \in DOMAIN product_infos : product_infos[i].shop # pk})
                /\ order_items' = Keep(order_items,
                       {i \in DOMAIN order_items : order_items[i].shop # pk})
                /\ UNCHANGED <<users, orders, contacts, tokens, products, categories,
                               parameters>>
    ]_vars

\* C9 witness: a user was deleted; of the two orders created one is left,
\* the only contact is gone, and the other user is still stored.
C9_Witness ==
    /\ last.op = "delete" /\ last.args.table = "users"
    /\ seq["orders"] = 2 /\ Cardinality(DOMAIN orders) = 1
    /\ seq["contacts"] = 1 /\ contacts = <<>>
    /\ \E u \in DOMAIN users : \A o \in DOMAIN orders : orders[o].user = u

\* ------------------------------------------- claims about the foreign keys

\* Every foreign key that is not NULL names a stored row, and every join row
\* of Category.shops names a stored category and a stored shop.
ForeignKeysHold ==
    /\ \A fk \in ForeignKeys : \A p \in DOMAIN Table(fk[1]) :
          Table(fk[1])[p][fk[2]] # NULL => Table(fk[1])[p][fk[2]] \in DOMAIN Table(fk[3])
    /\ \A cs \in category_shops : cs[1] \in DOMAIN categories /\ cs[2] \in DOMAIN shops

\* C11: after every create and delete no stored row holds a non-null foreign
\* key to a row that is not stored; deleting a user also deletes the shop
\* linked to the user, that shop's listings (ProductInfo) and order items,
\* and the parameters (ProductParameter) of those listings; deleting a
\* category deletes its products and their listings and order items.
C11_NoDanglingForeignKey ==
    [][/\ ForeignKeysHold'
       /\ last'.op = "delete" =>
            LET pk == last'.args.pk
                S == IF last'.args.table = "users"
                     THEN {sh \in DOMAIN shops : shops[sh].user = pk} ELSE {}
                P == IF last'.args.table = "categories"
                     THEN {pr \in DOMAIN products : products[pr].category = pk} ELSE {}
                L == {i \in DOMAIN product_infos :
                         product_infos[i].shop \in S \/ product_infos[i].product \in P}
                I == {i \in DOMAIN order_items :
                         order_items[i].shop \in S \/ order_items[i].product \in P}
                R == {i \in DOMAIN product_parameters :
                         product_parameters[i].product_info \in L}
            IN /\ \A t \in TableNames :
                     t = last'.args.table => pk \notin DOMAIN Table(t)'
               /\ DOMAIN shops' \cap S = {}
               /\ DOMAIN products' \cap P = {}
               /\ DOMAIN product_infos' \cap L = {}
               /\ DOMAIN order_items' \cap I = {}
               /\ DOMAIN product_parameters' \cap R = {}
    ]_vars

\* C11 witness: one delete of the only user removed four rows, the user,
\* the user's shop, its listing and the listing's parameter, while the
\* product and the parameter they named are still stored.
C11_Witness ==
    /\ last.op = "delete" /\ last.args.table = "users" /\ last.args.deleted = 4
    /\ seq["users"] = 1 /\ seq["orders"] = 0
    /\ seq["product_parameters"] = 1 /\ product_parameters = <<>>
    /\ shops = <<>> /\ product_infos = <<>>
    /\ products # <<>> /\ parameters # <<>>

====
